---- MODULE Spec2Model ----
(***************************************************************************)
(* A model of the binary search tree of src/BST.h (class Node<T>, class    *)
(* BST<T>, with T = int).  Nodes live in a heap that only grows: the       *)
(* library never frees a node, so a node removed from the tree stays in    *)
(* the heap with its fields as they were.  A node's address is its index   *)
(* in the heap.                                                            *)
(***************************************************************************)
EXTENDS Integers, Sequences, FiniteSets, TLC

\* ---------------------------------------------------------------- bounds
MaxNodes     == 4  \* `new Node` calls in a run on zero-filled memory
MaxWildNodes == 3  \* `new Node` calls in a run on indeterminate memory
MaxWeight    == 4  \* weights are 1..MaxWeight
MaxValue     == 2  \* values (T = int) are 1..MaxValue

Weights == 1 .. MaxWeight
Values  == 1 .. MaxValue

\* ------------------------------------------------------------- pointers
\* The null pointer.
NULL == 0
\* Any non-null bit pattern left in a pointer field that no code wrote.
\* Following it is undefined behaviour wherever it happens to point, so it
\* is the address of no node.
WILD == -1

\* What a pointer field of freshly allocated memory can hold: Node's
\* constructor sets weight and value only, so left, right and parent keep
\* whatever the allocator handed out.
Indeterminate == {NULL, WILD}
\* An allocator that happens to hand out zero-filled memory.
ZeroFilled == {NULL}

IntMax == 2147483647
IntMin == (-IntMax) - 1

VARIABLES
  weight,   \* weight[n]: Node::weight of the node at address n
  value,    \* value[n]:  Node::value
  left,     \* left[n]:   Node::left
  right,    \* right[n]:  Node::right
  parent,   \* parent[n]: Node::parent
  root,     \* BST::root
  fault,    \* TRUE once a null or indeterminate pointer was dereferenced
  live,     \* ghost: the weights inserted and not since deleted
  call      \* ghost: the last call that wrote to the tree (op), and the
            \* number of nodes in the heap when it was made (n)

vars == <<weight, value, left, right, parent, root, fault, live, call>>

\* The heap as one value, for the operators below.
Mem == [weight |-> weight, value |-> value, left |-> left, right |-> right,
        parent |-> parent, fault |-> fault]

IsNode(m, p) == p \in 1 .. Len(m.weight)

\* Dereferencing a pointer that is no node is undefined behaviour; the run
\* ends there.
Fault(m) == [m EXCEPT !.fault = TRUE]

\* new Node<T>(weight, value): g = <<left, right, parent>> is what the
\* memory held.
NewNode(m, w, v, g) ==
  [m EXCEPT !.weight = Append(@, w), !.value = Append(@, v),
            !.left = Append(@, g[1]), !.right = Append(@, g[2]),
            !.parent = Append(@, g[3])]

\* insert without its equal-weight branch: a weight already in the tree
\* descends to the right and becomes a second node.
RECURSIVE insertDuplicate(_, _, _, _, _)
insertDuplicate(m, p, w, v, g) ==
  IF p = NULL
    THEN [mem |-> NewNode(m, w, v, g), ret |-> Len(m.weight) + 1]
  ELSE IF ~IsNode(m, p)
    THEN [mem |-> Fault(m), ret |-> p]
  ELSE IF w < m.weight[p]
    THEN LET r == insertDuplicate(m, m.left[p], w, v, g) IN
         IF r.mem.fault THEN r
         ELSE [mem |-> [r.mem EXCEPT !.left[p] = r.ret, !.parent[r.ret] = p],
               ret |-> p]
  ELSE LET r == insertDuplicate(m, m.right[p], w, v, g) IN
       IF r.mem.fault THEN r
       ELSE [mem |-> [r.mem EXCEPT !.right[p] = r.ret, !.parent[r.ret] = p],
             ret |-> p]

\* BST<T>::insert(root, weight, value): the heap afterwards and the pointer
\* returned.
RECURSIVE insert(_, _, _, _, _)
insert(m, p, w, v, g) ==
  IF p = NULL
    THEN [mem |-> NewNode(m, w, v, g), ret |-> Len(m.weight) + 1]
  ELSE IF ~IsNode(m, p)
    THEN [mem |-> Fault(m), ret |-> p]
  ELSE IF w = m.weight[p]
    THEN [mem |-> [m EXCEPT !.value[p] = v], ret |-> p]
  ELSE IF w < m.weight[p]
    THEN LET r == insert(m, m.left[p], w, v, g) IN
         IF r.mem.fault THEN r
         ELSE [mem |-> [r.mem EXCEPT !.left[p] = r.ret, !.parent[r.ret] = p],
               ret |-> p]
  ELSE LET r == insert(m, m.right[p], w, v, g) IN
       IF r.mem.fault THEN r
       ELSE [mem |-> [r.mem EXCEPT !.right[p] = r.ret, !.parent[r.ret] = p],
             ret |-> p]

\* BST<T>::findMinimum(root): the node the walk ends on, or, when the walk
\* dereferences a pointer that is no node, that pointer.
RECURSIVE findMinimumFrom(_, _)
findMinimumFrom(m, p) ==
  IF ~IsNode(m, p) THEN p
  ELSE IF m.left[p] = NULL THEN p
  ELSE findMinimumFrom(m, m.left[p])

\* BST<T>::findMaximum(root)
RECURSIVE findMaximumFrom(_, _)
findMaximumFrom(m, p) ==
  IF ~IsNode(m, p) THEN p
  ELSE IF m.right[p] = NULL THEN p
  ELSE findMaximumFrom(m, m.right[p])

\* BST<T>::findMinimum() and BST<T>::findMaximum(): the same walks from
\* this->root.
findMinimum(m, rt) == findMinimumFrom(m, rt)
findMaximum(m, rt) == findMaximumFrom(m, rt)

\* BST<T>::replace_node_in_parent(currentNode, newNode)
replace_node_in_parent(m, cur, new) ==
  IF m.parent[cur] = NULL THEN m
  ELSE IF ~IsNode(m, m.parent[cur]) THEN Fault(m)
  ELSE LET q  == m.parent[cur]
           m1 == IF cur = m.left[q] THEN [m EXCEPT !.left[q] = new]
                                    ELSE [m EXCEPT !.right[q] = new]
       IN IF new = NULL THEN m1
          ELSE IF ~IsNode(m, new) THEN Fault(m1)
          ELSE [m1 EXCEPT !.parent[new] = q]

\* BST<T>::deleteNode(root, weight)
RECURSIVE deleteNode(_, _, _)
deleteNode(m, p, w) ==
  IF ~IsNode(m, p) THEN Fault(m)
  ELSE IF w < m.weight[p] THEN deleteNode(m, m.left[p], w)
  ELSE IF w > m.weight[p] THEN deleteNode(m, m.right[p], w)
  ELSE IF m.left[p] # NULL /\ m.right[p] # NULL
    THEN LET successor == findMinimumFrom(m, m.right[p]) IN
         IF ~IsNode(m, successor) THEN Fault(m)
         ELSE LET m1 == [m EXCEPT !.weight[p] = m.weight[successor],
                                  !.value[p] = m.value[successor]]
              IN deleteNode(m1, successor, m1.weight[successor])
  ELSE IF m.left[p] # NULL THEN replace_node_in_parent(m, p, m.left[p])
  ELSE IF m.right[p] # NULL THEN replace_node_in_parent(m, p, m.right[p])
  ELSE replace_node_in_parent(m, p, NULL)

\* BST<T>::traverse(root, callback): the weights handed to the callback, in
\* order, and whether the walk dereferenced a pointer that is no node.
RECURSIVE traverse(_, _)
traverse(m, p) ==
  IF p = NULL THEN [fault |-> FALSE, out |-> <<>>]
  ELSE IF ~IsNode(m, p) THEN [fault |-> TRUE, out |-> <<>>]
  ELSE LET l == traverse(m, m.left[p]) IN
       IF l.fault THEN l
       ELSE LET r == traverse(m, m.right[p]) IN
            [fault |-> r.fault, out |-> l.out \o <<m.weight[p]>> \o r.out]

\* BST<T>::search(root, value), in the tree rooted at this->root = rt.
RECURSIVE search(_, _, _, _)
search(m, rt, p, v) ==
  LET lo == findMinimum(m, rt)
      hi == findMaximum(m, rt)
  IN IF ~IsNode(m, lo) THEN [fault |-> TRUE, ret |-> p]
     ELSE IF v < m.value[lo] THEN [fault |-> FALSE, ret |-> p]
     ELSE IF ~IsNode(m, hi) THEN [fault |-> TRUE, ret |-> p]
     ELSE IF v > m.value[hi] THEN [fault |-> FALSE, ret |-> p]
     ELSE IF ~IsNode(m, p) THEN [fault |-> TRUE, ret |-> p]
     ELSE IF m.value[p] = v THEN [fault |-> FALSE, ret |-> p]
     ELSE IF v < m.value[p] THEN search(m, rt, m.left[p], v)
     ELSE search(m, rt, m.right[p], v)

\* BST<T>::isBalanced(root, minWeight, maxWeight)
RECURSIVE isBalanced(_, _, _, _)
isBalanced(m, p, minWeight, maxWeight) ==
  IF p = NULL THEN [fault |-> FALSE, ret |-> TRUE]
  ELSE IF ~IsNode(m, p) THEN [fault |-> TRUE, ret |-> FALSE]
  ELSE IF m.weight[p] < minWeight \/ m.weight[p] > maxWeight
    THEN [fault |-> FALSE, ret |-> FALSE]
  ELSE LET l == isBalanced(m, m.left[p], minWeight, m.weight[p] - 1) IN
       IF l.fault \/ ~l.ret THEN l
       ELSE isBalanced(m, m.right[p], m.weight[p] + 1, maxWeight)

\* BST<T>::getRoot()
getRoot == root

\* The heap after a call.
Store(m) ==
  /\ weight' = m.weight
  /\ value' = m.value
  /\ left' = m.left
  /\ right' = m.right
  /\ parent' = m.parent
  /\ fault' = m.fault

Call(op) == [op |-> op, n |-> Len(weight)]

\* BST<T>::BST(weight, value): root = new Node<T>(weight, value).
Construct(G) ==
  \E w \in Weights, v \in Values, g \in G \X G \X G :
    /\ weight = <<w>>
    /\ value = <<v>>
    /\ left = <<g[1]>>
    /\ right = <<g[2]>>
    /\ parent = <<g[3]>>
    /\ root = 1
    /\ fault = FALSE
    /\ live = {w}
    /\ call = [op |-> "BST", n |-> 0]

\* Whether insert(getRoot(), w, v) reaches an empty subtree and allocates.
Allocates(w) ==
  Len(insert(Mem, getRoot, w, 1, <<NULL, NULL, NULL>>).mem.weight) > Len(weight)

\* myBST.insert(myBST.getRoot(), w, v), the new node (if one is made) in
\* memory that held g.
InsertCall(w, v, g) ==
  /\ ~fault
  /\ call' = Call("insert")
  /\ root' = root
  /\ LET r == insert(Mem, getRoot, w, v, g) IN
       /\ Store(r.mem)
       /\ live' = IF r.mem.fault THEN live ELSE live \cup {w}

\* Any insert, while the run has made fewer than max allocations.
Insert(G, max) ==
  \E w \in Weights, v \in Values :
    \E g \in IF Allocates(w) THEN G \X G \X G ELSE {<<NULL, NULL, NULL>>} :
      /\ Allocates(w) => Len(weight) < max
      /\ InsertCall(w, v, g)

\* myBST.deleteNode(myBST.getRoot(), w)
DeleteNodeCall(w) ==
  /\ ~fault
  /\ call' = Call("deleteNode")
  /\ root' = root
  /\ LET m == deleteNode(Mem, getRoot, w) IN
       /\ Store(m)
       /\ live' = IF m.fault THEN live ELSE live \ {w}

DeleteNode == \E w \in Weights : DeleteNodeCall(w)

\* A call that reads the tree: it changes nothing, unless it dereferences a
\* pointer that is no node.
Reads(faults) ==
  /\ ~fault
  /\ fault' = faults
  /\ UNCHANGED <<weight, value, left, right, parent, root, live, call>>

\* myBST.search(myBST.getRoot(), v)
Search == \E v \in Values : Reads(search(Mem, root, getRoot, v).fault)

\* myBST.traverse(myBST.getRoot(), &callback)
Traverse == Reads(traverse(Mem, getRoot).fault)

\* myBST.findMinimum()
FindMinimum == Reads(~IsNode(Mem, findMinimum(Mem, root)))

\* myBST.findMaximum()
FindMaximum == Reads(~IsNode(Mem, findMaximum(Mem, root)))

\* myBST.isBalanced(myBST.getRoot(), INT_MIN, INT_MAX)
IsBalanced == Reads(isBalanced(Mem, getRoot, IntMin, IntMax).fault)

\* The program as compiled: fresh memory holds anything.
Init == Construct(Indeterminate)
Next ==
  \/ Insert(Indeterminate, MaxWildNodes)
  \/ DeleteNode
  \/ Search
  \/ Traverse
  \/ FindMinimum
  \/ FindMaximum
  \/ IsBalanced
Spec == Init /\ [][Next]_vars

\* The runs in which every allocation happens to return zero-filled memory.
InitZeroed == Construct(ZeroFilled)
NextZeroed ==
  \/ Insert(ZeroFilled, MaxNodes)
  \/ DeleteNode
  \/ Search
  \/ Traverse
  \/ FindMinimum
  \/ FindMaximum
  \/ IsBalanced
SpecZeroed == InitZeroed /\ [][NextZeroed]_vars

\* The runs on zero-filled memory that only insert and search.
NextInserts == Insert(ZeroFilled, MaxNodes) \/ Search
SpecInserts == InitZeroed /\ [][NextInserts]_vars

\* ------------------------------------------------ what the claims speak of
\* The nodes reachable from p through left and right.
RECURSIVE Reach(_, _)
Reach(m, p) ==
  IF ~IsNode(m, p) THEN {}
  ELSE {p} \cup Reach(m, m.left[p]) \cup Reach(m, m.right[p])

\* The nodes of the tree, their weights and their (weight, value) pairs.
Tree == Reach(Mem, getRoot)
TreeWeights == {weight[n] : n \in Tree}
TreePairs == {<<weight[n], value[n]>> : n \in Tree}

\* The elements of a finite set of integers, ascending.
RECURSIVE SortedSeq(_)
SortedSeq(S) ==
  IF S = {} THEN <<>>
  ELSE LET x == CHOOSE y \in S : \A z \in S : y <= z
       IN <<x>> \o SortedSeq(S \ {x})

\* Every node's left subtree holds smaller weights, its right subtree larger.
Ordered ==
  \A n \in Tree :
    /\ \A k \in Reach(Mem, left[n]) : weight[k] < weight[n]
    /\ \A k \in Reach(Mem, right[n]) : weight[k] > weight[n]

\* Parent links agree with child links, for every node of the tree.
ParentsAgree ==
  \A n \in Tree :
    /\ parent[n] # NULL =>
         /\ IsNode(Mem, parent[n])
         /\ left[parent[n]] = n \/ right[parent[n]] = n
    /\ n # getRoot =>
         /\ parent[n] \in Tree
         /\ left[parent[n]] = n \/ right[parent[n]] = n
    /\ Cardinality({q \in Tree : left[q] = n \/ right[q] = n}) <= 1

\* The node of the tree with weight w (w is in the tree).
NodeOf(w) == CHOOSE n \in Tree : weight[n] = w

\* Node n has two children.
TwoChildren(n) == IsNode(Mem, left[n]) /\ IsNode(Mem, right[n])

\* The in-order successor of a node with two children: the node of smallest
\* weight in its right subtree.
Successor(n) ==
  CHOOSE s \in Reach(Mem, right[n]) :
    \A k \in Reach(Mem, right[n]) : weight[s] <= weight[k]

\* ----------------------------------------------------------------- claims

\* C1: after any inserts and deletes of present weights, every node's left
\* subtree holds strictly smaller weights and its right subtree strictly
\* larger ones, and isBalanced(getRoot(), INT_MIN, INT_MAX) returns true.
C1_BSTInvariant ==
  ~fault =>
    /\ Ordered
    /\ isBalanced(Mem, getRoot, IntMin, IntMax) = [fault |-> FALSE, ret |-> TRUE]

\* C2: deleting a weight that is in the tree leaves no node of that weight
\* in the tree and exactly one node fewer.
C2_DeleteThenAbsent ==
  [][\A w \in Weights :
       (DeleteNodeCall(w) /\ w \in TreeWeights) =>
         /\ ~fault'
         /\ w \notin TreeWeights'
         /\ Cardinality(Tree') = Cardinality(Tree) - 1]_vars

\* C3: deleting the root's weight when the root has at most one child
\* updates the stored root: getRoot() is then the former root's only child,
\* or null when it had none.
C3_RootReplaced ==
  [][\A w \in Weights :
       (/\ DeleteNodeCall(w)
        /\ w = weight[getRoot]
        /\ ~(left[getRoot] # NULL /\ right[getRoot] # NULL)) =>
         /\ ~fault'
         /\ getRoot' = IF left[getRoot] # NULL THEN left[getRoot]
                                                ELSE right[getRoot]]_vars

\* C4: deleteNode of a weight that is not in the tree dereferences no null
\* subtree and leaves the tree as it was.
C4_DeleteAbsentNoOp ==
  [][\A w \in Weights :
       (DeleteNodeCall(w) /\ w \notin TreeWeights) =>
         /\ ~fault'
         /\ UNCHANGED <<weight, value, left, right, parent, root>>]_vars

\* C5: inserting (w, v2) when w is already in the tree leaves exactly one
\* node of weight w, holding v2, the same number of nodes, and every other
\* weight, value and link as it was.
C5_InsertOverwrites ==
  [][\A w \in TreeWeights, v \in Values :
       (\E g \in Indeterminate \X Indeterminate \X Indeterminate :
          InsertCall(w, v, g)) =>
         /\ ~fault'
         /\ Cardinality({n \in Tree' : weight'[n] = w}) = 1
         /\ \A n \in Tree' : weight'[n] = w => value'[n] = v
         /\ Cardinality(Tree') = Cardinality(Tree)
         /\ Len(weight') = Len(weight)
         /\ UNCHANGED <<weight, left, right, parent, root>>
         /\ \A n \in DOMAIN value :
              (n \notin Tree \/ weight[n] # w) => value'[n] = value[n]]_vars

\* C5's case: the last write was an insert that made no node, so it met its
\* weight in a tree of three nodes, one of them below a child of the root.
C5_Witness ==
  /\ ~fault
  /\ call.op = "insert"
  /\ call.n = Len(weight)
  /\ Cardinality(Tree) = 3
  /\ \E n \in Tree : n # getRoot /\ parent[n] # getRoot
  /\ \E n, k \in Tree : value[n] # value[k]

\* C6: after inserts, searching for the value last inserted with a weight
\* finds a node holding that value (the claim says: the node of that weight).
C6_InsertThenSearch ==
  ~fault =>
    \A n \in Tree :
      LET r == search(Mem, root, getRoot, value[n]) IN
      /\ ~r.fault
      /\ IsNode(Mem, r.ret)
      /\ value[r.ret] = value[n]

\* C7: traverse hands the callback each weight of the tree once, ascending:
\* the sorted sequence of the weights inserted and not since deleted.
C7_TraverseSorted ==
  ~fault => traverse(Mem, getRoot) = [fault |-> FALSE, out |-> SortedSeq(live)]

\* C8: findMinimum() and findMaximum() return the nodes of smallest and
\* largest weight among the weights inserted and not since deleted.
C8_MinMax ==
  (~fault /\ live # {}) =>
    /\ IsNode(Mem, findMinimum(Mem, root))
    /\ IsNode(Mem, findMaximum(Mem, root))
    /\ \A w \in live : weight[findMinimum(Mem, root)] <= w
    /\ \A w \in live : weight[findMaximum(Mem, root)] >= w
    /\ weight[findMinimum(Mem, root)] \in live
    /\ weight[findMaximum(Mem, root)] \in live

\* What C9 says of deleting w, the weight of a node with two children.
TwoChildDelete(w) ==
  LET n == NodeOf(w)
      s == Successor(n)
  IN /\ ~fault'
     /\ getRoot' = getRoot
     /\ n \in Tree'
     /\ parent'[n] = parent[n]
     /\ weight'[n] = weight[s]
     /\ value'[n] = value[s]
     /\ s \notin Tree'
     /\ Tree' = Tree \ {s}
     /\ TreePairs' = TreePairs \ {<<w, value[n]>>}

\* C9: deleting the weight of a node with two children keeps the node in
\* place, gives it the weight and value of its in-order successor, removes
\* the successor's node and keeps every other (weight, value) pair.
C9_TwoChildren ==
  [][\A w \in Weights :
       (/\ DeleteNodeCall(w)
        /\ w \in TreeWeights
        /\ TwoChildren(NodeOf(w))) => TwoChildDelete(w)]_vars

\* C10: every node of the tree with a parent set is a child of that parent,
\* every node but the root has as parent the node that holds it, and no node
\* is the child of two nodes.
C10_ParentLinks == ~fault => ParentsAgree

====
